---- MODULE Spec2Model ----
(***************************************************************************)
(* Material-Dither: the 1-bit dithering pipeline (processImage) as a state *)
(* machine.  The grey buffer is a Float32Array and every arithmetic step   *)
(* of the source is an IEEE-754 double operation, so numbers are modelled  *)
(* bit for bit: a double is sign * mantissa * 2^exponent with the mantissa *)
(* an arbitrary-precision natural, every operation rounds to 53 bits       *)
(* (ties to even) and every store into the buffer rounds to 24 bits.       *)
(***************************************************************************)
EXTENDS Integers, Sequences, FiniteSets, TLC

(***************************************************************************)
(* Arbitrary-precision naturals: little-endian sequences of limbs, no      *)
(* leading zero limb, <<>> being 0.  TLC integers are 32 bits wide, the    *)
(* mantissas of doubles are 53 bits wide, their products 106.              *)
(***************************************************************************)
LimbBits == 14

LimbBase == 2^LimbBits

Limb(a, i) == IF i <= Len(a) THEN a[i] ELSE 0

MaxInt(x, y) == IF x >= y THEN x ELSE y

MinInt(x, y) == IF x <= y THEN x ELSE y

RECURSIVE BNorm(_)
BNorm(a) ==
  IF a = <<>> THEN a
  ELSE IF a[Len(a)] = 0 THEN BNorm(SubSeq(a, 1, Len(a) - 1)) ELSE a

BFromInt(n) ==
  BNorm(<<n % LimbBase, (n \div LimbBase) % LimbBase,
          n \div (LimbBase * LimbBase)>>)

RECURSIVE BToIntFrom(_, _)
BToIntFrom(a, i) ==
  IF i > Len(a) THEN 0 ELSE a[i] + LimbBase * BToIntFrom(a, i + 1)

BToInt(a) == BToIntFrom(a, 1)

RECURSIVE BAddC(_, _, _, _)
BAddC(a, b, i, c) ==
  IF i > MaxInt(Len(a), Len(b))
  THEN IF c = 0 THEN <<>> ELSE <<c>>
  ELSE LET t == Limb(a, i) + Limb(b, i) + c
       IN  <<t % LimbBase>> \o BAddC(a, b, i + 1, t \div LimbBase)

BAdd(a, b) == BAddC(a, b, 1, 0)

RECURSIVE BSubC(_, _, _, _)
BSubC(a, b, i, br) ==
  IF i > Len(a) THEN <<>>
  ELSE LET t == Limb(a, i) - Limb(b, i) - br
       IN  <<t % LimbBase>> \o BSubC(a, b, i + 1, IF t < 0 THEN 1 ELSE 0)

\* a - b for a >= b
BSub(a, b) == BNorm(BSubC(a, b, 1, 0))

RECURSIVE BMulSmallC(_, _, _, _)
BMulSmallC(a, k, i, c) ==
  IF i > Len(a)
  THEN IF c = 0 THEN <<>> ELSE <<c>>
  ELSE LET t == a[i] * k + c
       IN  <<t % LimbBase>> \o BMulSmallC(a, k, i + 1, t \div LimbBase)

\* a * k for 0 <= k <= LimbBase
BMulSmall(a, k) ==
  IF k = 0 THEN <<>> ELSE IF k = 1 THEN a ELSE BMulSmallC(a, k, 1, 0)

RECURSIVE BMulFrom(_, _, _)
BMulFrom(a, b, j) ==
  IF j > Len(b) THEN <<>>
  ELSE BAdd(BMulSmall(a, b[j]), <<0>> \o BMulFrom(a, b, j + 1))

BMul(a, b) == BNorm(BMulFrom(a, b, 1))

BShl(a, n) ==
  IF a = <<>> THEN a
  ELSE [i \in 1..(n \div LimbBits) |-> 0] \o BMulSmall(a, 2^(n % LimbBits))

BShr(a, n) ==
  LET q == n \div LimbBits
      r == n % LimbBits
      t == IF q >= Len(a) THEN <<>> ELSE SubSeq(a, q + 1, Len(a))
  IN  IF n = 0 THEN a
      ELSE IF r = 0 THEN t
      ELSE BNorm([i \in 1..Len(t) |->
                    (t[i] \div 2^r)
                    + (Limb(t, i + 1) % 2^r) * 2^(LimbBits - r)])

\* bit n (bit 0 the least significant) of a
BBit(a, n) == (Limb(a, n \div LimbBits + 1) \div 2^(n % LimbBits)) % 2

\* the n low bits of a are all zero
BLowZero(a, n) ==
  /\ \A i \in 1..(n \div LimbBits) : Limb(a, i) = 0
  /\ Limb(a, n \div LimbBits + 1) % 2^(n % LimbBits) = 0

IntBitLen(n) == CHOOSE k \in 0..(LimbBits + 1) : 2^k > n /\ (k = 0 \/ 2^(k - 1) <= n)

BBitLen(a) ==
  IF a = <<>> THEN 0 ELSE LimbBits * (Len(a) - 1) + IntBitLen(a[Len(a)])

RECURSIVE BLessFrom(_, _, _)
BLessFrom(a, b, i) ==
  IF i = 0 THEN FALSE
  ELSE IF a[i] # b[i] THEN a[i] < b[i] ELSE BLessFrom(a, b, i - 1)

BLess(a, b) ==
  IF Len(a) # Len(b) THEN Len(a) < Len(b) ELSE BLessFrom(a, b, Len(a))

\* the number of trailing zero bits of a # 0
RECURSIVE BTrailingZeros(_, _)
BTrailingZeros(a, n) == IF BBit(a, n) = 1 THEN n ELSE BTrailingZeros(a, n + 1)

(***************************************************************************)
(* IEEE-754 values: k is "nan", "inf" or "fin"; a finite value is          *)
(* s * m * 2^e with s in {1,-1} and m a natural.  The sign of zero is not  *)
(* kept: no comparison or store of the source tells +0 from -0.            *)
(***************************************************************************)
NaN == [k |-> "nan", s |-> 1, m |-> <<>>, e |-> 0]

Inf(s) == [k |-> "inf", s |-> s, m |-> <<>>, e |-> 0]

Fin(s, m, e) ==
  IF m = <<>> THEN [k |-> "fin", s |-> 1, m |-> <<>>, e |-> 0]
  ELSE IF m[1] % 2 = 1 THEN [k |-> "fin", s |-> s, m |-> m, e |-> e]
  ELSE LET z == BTrailingZeros(m, 0)
       IN  [k |-> "fin", s |-> s, m |-> BShr(m, z), e |-> e + z]

\* the integer n as a value (exact)
Num(n) == IF n < 0 THEN Fin(-1, BFromInt(-n), 0) ELSE Fin(1, BFromInt(n), 0)

IsZero(x) == x.k = "fin" /\ x.m = <<>>

Neg(x) == IF x.k = "nan" \/ IsZero(x) THEN x ELSE [x EXCEPT !.s = -x.s]

\* s * m * 2^e rounded to p significant bits, no bit below 2^emin, ties to
\* even; values of magnitude 2^emax or more become infinite
RoundTo(s, m, e, p, emin, emax) ==
  LET d == MaxInt(0, MaxInt(BBitLen(m) - p, emin - e))
      q == BShr(m, d)
      up == /\ d > 0
            /\ BBit(m, d - 1) = 1
            /\ (~BLowZero(m, d - 1) \/ BBit(q, 0) = 1)
      r == IF up THEN BAdd(q, <<1>>) ELSE q
  IN  IF BBitLen(r) + e + d > emax THEN Inf(s)
      ELSE IF d = 0 THEN Fin(s, m, e)
      ELSE Fin(s, r, e + d)

\* rounding to double precision (every arithmetic operation of the source)
Round64(s, m, e) == RoundTo(s, m, e, 53, -1074, 1024)

\* rounding to single precision (a store into the Float32Array)
Round32(s, m, e) == RoundTo(s, m, e, 24, -149, 128)

\* x + y of finite x and y, exactly
XAdd(x, y) ==
  IF IsZero(x) THEN y
  ELSE IF IsZero(y) THEN x
  ELSE LET e == MinInt(x.e, y.e)
           mx == BShl(x.m, x.e - e)
           my == BShl(y.m, y.e - e)
       IN  IF x.s = y.s THEN Fin(x.s, BAdd(mx, my), e)
           ELSE IF BLess(mx, my) THEN Fin(y.s, BSub(my, mx), e)
           ELSE Fin(x.s, BSub(mx, my), e)

\* x * y of finite x and y, exactly
XMul(x, y) == Fin(x.s * y.s, BMul(x.m, y.m), x.e + y.e)

\* x + y in double precision
DAdd(x, y) ==
  IF x.k = "nan" \/ y.k = "nan" THEN NaN
  ELSE IF x.k = "inf" /\ y.k = "inf" THEN (IF x.s = y.s THEN x ELSE NaN)
  ELSE IF x.k = "inf" THEN x
  ELSE IF y.k = "inf" THEN y
  ELSE LET z == XAdd(x, y) IN Round64(z.s, z.m, z.e)

\* x - y in double precision
DSub(x, y) == DAdd(x, Neg(y))

\* x * y in double precision
DMul(x, y) ==
  IF x.k = "nan" \/ y.k = "nan" THEN NaN
  ELSE IF x.k = "inf" \/ y.k = "inf"
       THEN (IF IsZero(x) \/ IsZero(y) THEN NaN ELSE Inf(x.s * y.s))
  ELSE LET z == XMul(x, y) IN Round64(z.s, z.m, z.e)

\* the n next quotient bits of r / d (0 <= r < d < 2^28), as
\* <<bits, remainder>>: long division, three bits at a time (8 * r < 2^31)
RECURSIVE DivBits(_, _, _, _)
DivBits(r, d, n, acc) ==
  IF n = 0 THEN <<acc, r>>
  ELSE CHOOSE result \in
         { DivBits((b * r) % d, d, n - k, b * acc + (b * r) \div d) :
             k \in {MinInt(3, n)}, b \in {2^MinInt(3, n)} } : TRUE

\* floor(r * 2^(LimbBits * n) / d) as limbs, least significant first, with
\* the final remainder in front
RECURSIVE DivLimbs(_, _, _)
DivLimbs(r, d, n) ==
  IF n = 0 THEN <<r>>
  ELSE CHOOSE limbs \in
         UNION { { <<rest[1]>> \o SubSeq(rest, 2, Len(rest)) \o <<b[1]>> :
                     rest \in {DivLimbs(b[2], d, n - 1)} } :
                   b \in {DivBits(r, d, LimbBits, 0)} } : TRUE

\* x / y in double precision, for finite x and y whose mantissas are below
\* 2^28 (every division of the source: integers and sixteenths)
DDiv(x, y) ==
  IF x.k = "nan" \/ y.k = "nan" THEN NaN
  ELSE IF IsZero(y) THEN (IF IsZero(x) THEN NaN ELSE Inf(x.s))
  ELSE IF IsZero(x) THEN x
  ELSE LET n == BToInt(x.m)
           d == BToInt(y.m)
       IN  CHOOSE quotient \in
             { LET \* quotient * 2^(6 * LimbBits), plus a sticky bit for the
                   \* remainder
                   q == BNorm(SubSeq(fr, 2, Len(fr)) \o BFromInt(n \div d))
                   qs == BAdd(BShl(q, 1), IF fr[1] = 0 THEN <<>> ELSE <<1>>)
               IN  Round64(x.s * y.s, qs, x.e - y.e - (6 * LimbBits) - 1) :
                 fr \in {DivLimbs(n % d, d, 6)} } : TRUE

\* x < y as the source compares numbers: false when either is NaN
DLess(x, y) ==
  IF x.k = "nan" \/ y.k = "nan" THEN FALSE
  ELSE LET d == DSub(x, y) IN d.k # "nan" /\ ~IsZero(d) /\ d.s = -1

\* Math.min and Math.max of two numbers
MathMin(x, y) ==
  IF x.k = "nan" \/ y.k = "nan" THEN NaN ELSE IF DLess(y, x) THEN y ELSE x

MathMax(x, y) ==
  IF x.k = "nan" \/ y.k = "nan" THEN NaN ELSE IF DLess(x, y) THEN y ELSE x

\* Math.floor and Math.ceil of a finite number, as an integer
MathFloor(x) ==
  IF IsZero(x) THEN 0
  ELSE IF x.e >= 0 THEN x.s * BToInt(BShl(x.m, x.e))
  ELSE LET q == BToInt(BShr(x.m, -x.e))
       IN  IF x.s = 1 THEN q
           ELSE IF BLowZero(x.m, -x.e) THEN -q ELSE -q - 1

MathCeil(x) ==
  IF IsZero(x) THEN 0
  ELSE IF x.e >= 0 THEN x.s * BToInt(BShl(x.m, x.e))
  ELSE LET q == BToInt(BShr(x.m, -x.e))
       IN  IF x.s = -1 THEN -q
           ELSE IF BLowZero(x.m, -x.e) THEN q ELSE q + 1

\* the value a Float32Array element keeps of x
Fround(x) == IF x.k = "fin" THEN Round32(x.s, x.m, x.e) ELSE x

\* the value a Uint8ClampedArray element keeps of x: NaN is 0, the rest is
\* clamped to 0..255 and rounded to the nearest integer, ties to even
ToUint8Clamp(x) ==
  IF x.k = "nan" THEN 0
  ELSE IF x.k = "inf" THEN (IF x.s = 1 THEN 255 ELSE 0)
  ELSE IF IsZero(x) \/ x.s = -1 THEN 0
  ELSE IF ~DLess(x, Num(255)) THEN 255
  ELSE IF x.e >= 0 THEN BToInt(BShl(x.m, x.e))
  ELSE LET fl == BToInt(BShr(x.m, -x.e))
           up == /\ BBit(x.m, -x.e - 1) = 1
                 /\ (~BLowZero(x.m, -x.e - 1) \/ fl % 2 = 1)
       IN  IF up THEN fl + 1 ELSE fl

(***************************************************************************)
(* The program                                                             *)
(***************************************************************************)
THRESHOLD == "Threshold"

FLOYD_STEINBERG == "Floyd-Steinberg"

ATKINSON == "Atkinson"

BAYER_4 == "Bayer 4x4"

BAYER_8 == "Bayer 8x8"

NOISE == "Random Noise"

DitherMethod == {THRESHOLD, FLOYD_STEINBERG, ATKINSON, BAYER_4, BAYER_8, NOISE}

\* the 4x4 matrix with 1 written for 11 in its third row
Bayer4MatrixTypo ==
  << <<0, 8, 2, 10>>, <<12, 4, 14, 6>>, <<3, 1, 1, 9>>, <<15, 7, 13, 5>> >>

\* the matrices as the module defines them; they are indexed from 0 in the
\* source: bayer4[y % 4][x % 4] is bayer4[(y % 4) + 1][(x % 4) + 1] here
Bayer4Matrix ==
  << <<0, 8, 2, 10>>,
     <<12, 4, 14, 6>>,
     <<3, 11, 1, 9>>,
     <<15, 7, 13, 5>> >>

Bayer8Matrix ==
  << <<0, 32, 8, 40, 2, 34, 10, 42>>,
     <<48, 16, 56, 24, 50, 18, 58, 26>>,
     <<12, 44, 4, 36, 14, 46, 6, 38>>,
     <<60, 28, 52, 20, 62, 30, 54, 22>>,
     <<3, 35, 11, 43, 1, 33, 9, 41>>,
     <<51, 19, 59, 27, 49, 17, 57, 25>>,
     <<15, 47, 7, 39, 13, 45, 5, 37>>,
     <<63, 31, 55, 23, 61, 29, 53, 21>> >>

\* (259 * (contrast + 255)) / (255 * (259 - contrast))
contrastFactor(s) ==
  DDiv(Num(259 * (s.contrast + 255)), Num(255 * (259 - s.contrast)))

\* the literals 0.299, 0.587 and 0.114: the doubles nearest to the decimals
LumaR == DDiv(Num(299), Num(1000))

LumaG == DDiv(Num(587), Num(1000))

LumaB == DDiv(Num(114), Num(1000))

\* applyFilters with the brightness added after the contrast stretch
applyFiltersBrightnessLast(s, cf, r, g, b) ==
  LET gray0 == DAdd(DAdd(DMul(LumaR, Num(r)), DMul(LumaG, Num(g))),
                    DMul(LumaB, Num(b)))
      gray2 == DAdd(DMul(cf, DSub(gray0, Num(128))), Num(128))
  IN  MathMax(Num(0), MathMin(Num(255), DAdd(gray2, Num(s.brightness))))

\* applyFilters of the source closes over contrastFactor and settings: cf is
\* the value of contrastFactor, computed once per call of processImage
applyFilters(s, cf, r, g, b) ==
  LET gray0 == DAdd(DAdd(DMul(LumaR, Num(r)), DMul(LumaG, Num(g))),
                    DMul(LumaB, Num(b)))
      gray1 == DAdd(gray0, Num(s.brightness))
      gray2 == DAdd(DMul(cf, DSub(gray1, Num(128))), Num(128))
  IN  MathMax(Num(0), MathMin(Num(255), gray2))

\* the grey buffer the first loop of processImage fills from the RGBA bytes
greyscale(s, d, w, h) ==
  LET cf == contrastFactor(s)
  IN  [j \in 0..(w * h - 1) |->
         Fround(applyFilters(s, cf, d[4 * j], d[4 * j + 1], d[4 * j + 2]))]

\* noiseOf with 64 written for 60
noiseOfWide(u) == DMul(DSub(u, DDiv(Num(1), Num(2))), Num(64))

\* (Math.random() - 0.5) * 60
noiseOf(u) == DMul(DSub(u, DDiv(Num(1), Num(2))), Num(60))

\* the threshold an ordered-dither pixel is compared with:
\* ((mapValue / divisor) * 255 + settings.threshold) / 2
finalThresh(s, mapValue, divisor) ==
  DDiv(DAdd(DMul(DDiv(Num(mapValue), Num(divisor)), Num(255)),
            Num(s.threshold)),
       Num(2))

\* mapValue4 with the column and the row exchanged
mapValue4Transposed(b4, px, py) == b4[(px % 4) + 1][(py % 4) + 1]

\* the entry of the 4x4 and of the 8x8 matrix b4 and b8 for column px, row py
mapValue4(b4, px, py) == b4[(py % 4) + 1][(px % 4) + 1]

mapValue8(b8, px, py) == b8[(py % 8) + 1][(px % 8) + 1]

\* newPixelOf with <= for < in the comparison with settings.threshold
newPixelOfLeq(s, oldPixel, px, py, u, b4, b8) ==
  IF s.method = BAYER_4
  THEN IF DLess(oldPixel, finalThresh(s, mapValue4(b4, px, py), 16))
       THEN 0 ELSE 255
  ELSE IF s.method = BAYER_8
  THEN IF DLess(oldPixel, finalThresh(s, mapValue8(b8, px, py), 64))
       THEN 0 ELSE 255
  ELSE IF s.method = NOISE
  THEN IF DLess(DAdd(oldPixel, noiseOf(u)), Num(s.threshold)) THEN 0 ELSE 255
  ELSE IF DLess(oldPixel, Num(s.threshold)) \/ oldPixel = Num(s.threshold)
       THEN 0 ELSE 255

\* the binary value of a pixel whose grey value is oldPixel, at column px and
\* row py, u being the value Math.random() returns (NOISE only), b4 and b8
\* the two matrices
newPixelOf(s, oldPixel, px, py, u, b4, b8) ==
  IF s.method = BAYER_4
  THEN IF DLess(oldPixel, finalThresh(s, mapValue4(b4, px, py), 16))
       THEN 0 ELSE 255
  ELSE IF s.method = BAYER_8
  THEN IF DLess(oldPixel, finalThresh(s, mapValue8(b8, px, py), 64))
       THEN 0 ELSE 255
  ELSE IF s.method = NOISE
  THEN IF DLess(DAdd(oldPixel, noiseOf(u)), Num(s.threshold)) THEN 0 ELSE 255
  ELSE IF DLess(oldPixel, Num(s.threshold)) THEN 0 ELSE 255

\* diffusionTargets with the first share of FLOYD_STEINBERG given to the west
\* neighbour, and that of ATKINSON likewise
diffusionTargetsWest(method, px, py, w, h) ==
  LET i == py * w + px
      T(idx, dx, dy, num, den) ==
        <<[idx |-> idx, dx |-> dx, dy |-> dy, num |-> num, den |-> den]>>
      If(c, t) == IF c THEN t ELSE <<>>
  IN  IF method = FLOYD_STEINBERG
      THEN If(px - 1 >= 0, T(i - 1, -1, 0, 7, 16))
           \o If(py + 1 < h,
                 If(px - 1 >= 0, T(i + w - 1, -1, 1, 3, 16))
                 \o T(i + w, 0, 1, 5, 16)
                 \o If(px + 1 < w, T(i + w + 1, 1, 1, 1, 16)))
      ELSE IF method = ATKINSON
      THEN If(px - 1 >= 0, T(i - 1, -1, 0, 1, 8))
           \o If(px + 2 < w, T(i + 2, 2, 0, 1, 8))
           \o If(py + 1 < h,
                 If(px - 1 >= 0, T(i + w - 1, -1, 1, 1, 8))
                 \o T(i + w, 0, 1, 1, 8)
                 \o If(px + 1 < w, T(i + w + 1, 1, 1, 1, 8)))
           \o If(py + 2 < h, T(i + 2 * w, 0, 2, 1, 8))
      ELSE <<>>

\* diffusionTargets with the fractions of south-west and south exchanged
diffusionTargetsSwapped(method, px, py, w, h) ==
  LET i == py * w + px
      T(idx, dx, dy, num, den) ==
        <<[idx |-> idx, dx |-> dx, dy |-> dy, num |-> num, den |-> den]>>
      If(c, t) == IF c THEN t ELSE <<>>
  IN  IF method = FLOYD_STEINBERG
      THEN If(px + 1 < w, T(i + 1, 1, 0, 7, 16))
           \o If(py + 1 < h,
                 If(px - 1 >= 0, T(i + w - 1, -1, 1, 5, 16))
                 \o T(i + w, 0, 1, 3, 16)
                 \o If(px + 1 < w, T(i + w + 1, 1, 1, 1, 16)))
      ELSE IF method = ATKINSON
      THEN If(px + 1 < w, T(i + 1, 1, 0, 1, 8))
           \o If(px + 2 < w, T(i + 2, 2, 0, 1, 8))
           \o If(py + 1 < h,
                 If(px - 1 >= 0, T(i + w - 1, -1, 1, 1, 8))
                 \o T(i + w, 0, 1, 1, 8)
                 \o If(px + 1 < w, T(i + w + 1, 1, 1, 1, 8)))
           \o If(py + 2 < h, T(i + 2 * w, 0, 2, 1, 8))
      ELSE <<>>

\* diffusionTargets without the Floyd-Steinberg write to the south-east
diffusionTargetsNoSouthEast(method, px, py, w, h) ==
  LET i == py * w + px
      T(idx, dx, dy, num, den) ==
        <<[idx |-> idx, dx |-> dx, dy |-> dy, num |-> num, den |-> den]>>
      If(c, t) == IF c THEN t ELSE <<>>
  IN  IF method = FLOYD_STEINBERG
      THEN If(px + 1 < w, T(i + 1, 1, 0, 7, 16))
           \o If(py + 1 < h,
                 If(px - 1 >= 0, T(i + w - 1, -1, 1, 3, 16))
                 \o T(i + w, 0, 1, 5, 16))
      ELSE IF method = ATKINSON
      THEN If(px + 1 < w, T(i + 1, 1, 0, 1, 8))
           \o If(px + 2 < w, T(i + 2, 2, 0, 1, 8))
           \o If(py + 1 < h,
                 If(px - 1 >= 0, T(i + w - 1, -1, 1, 1, 8))
                 \o T(i + w, 0, 1, 1, 8)
                 \o If(px + 1 < w, T(i + w + 1, 1, 1, 1, 8)))
           \o If(py + 2 < h, T(i + 2 * w, 0, 2, 1, 8))
      ELSE <<>>

\* diffusionTargets without the Atkinson write two rows down
diffusionTargetsNoSecondRow(method, px, py, w, h) ==
  LET i == py * w + px
      T(idx, dx, dy, num, den) ==
        <<[idx |-> idx, dx |-> dx, dy |-> dy, num |-> num, den |-> den]>>
      If(c, t) == IF c THEN t ELSE <<>>
  IN  IF method = FLOYD_STEINBERG
      THEN If(px + 1 < w, T(i + 1, 1, 0, 7, 16))
           \o If(py + 1 < h,
                 If(px - 1 >= 0, T(i + w - 1, -1, 1, 3, 16))
                 \o T(i + w, 0, 1, 5, 16)
                 \o If(px + 1 < w, T(i + w + 1, 1, 1, 1, 16)))
      ELSE IF method = ATKINSON
      THEN If(px + 1 < w, T(i + 1, 1, 0, 1, 8))
           \o If(px + 2 < w, T(i + 2, 2, 0, 1, 8))
           \o If(py + 1 < h,
                 If(px - 1 >= 0, T(i + w - 1, -1, 1, 1, 8))
                 \o T(i + w, 0, 1, 1, 8)
                 \o If(px + 1 < w, T(i + w + 1, 1, 1, 1, 8)))
      ELSE <<>>

\* diffusionTargets without the test x - 1 >= 0
diffusionTargetsNoLeftGuard(method, px, py, w, h) ==
  LET i == py * w + px
      T(idx, dx, dy, num, den) ==
        <<[idx |-> idx, dx |-> dx, dy |-> dy, num |-> num, den |-> den]>>
      If(c, t) == IF c THEN t ELSE <<>>
  IN  IF method = FLOYD_STEINBERG
      THEN If(px + 1 < w, T(i + 1, 1, 0, 7, 16))
           \o If(py + 1 < h,
                 T(i + w - 1, -1, 1, 3, 16)
                 \o T(i + w, 0, 1, 5, 16)
                 \o If(px + 1 < w, T(i + w + 1, 1, 1, 1, 16)))
      ELSE IF method = ATKINSON
      THEN If(px + 1 < w, T(i + 1, 1, 0, 1, 8))
           \o If(px + 2 < w, T(i + 2, 2, 0, 1, 8))
           \o If(py + 1 < h,
                 T(i + w - 1, -1, 1, 1, 8)
                 \o T(i + w, 0, 1, 1, 8)
                 \o If(px + 1 < w, T(i + w + 1, 1, 1, 1, 8)))
           \o If(py + 2 < h, T(i + 2 * w, 0, 2, 1, 8))
      ELSE <<>>

\* diffusionTargets with the Floyd-Steinberg writes in an else branch: every
\* method but ATKINSON diffuses
diffusionTargetsElse(method, px, py, w, h) ==
  LET i == py * w + px
      T(idx, dx, dy, num, den) ==
        <<[idx |-> idx, dx |-> dx, dy |-> dy, num |-> num, den |-> den]>>
      If(c, t) == IF c THEN t ELSE <<>>
  IN  IF method # ATKINSON
      THEN If(px + 1 < w, T(i + 1, 1, 0, 7, 16))
           \o If(py + 1 < h,
                 If(px - 1 >= 0, T(i + w - 1, -1, 1, 3, 16))
                 \o T(i + w, 0, 1, 5, 16)
                 \o If(px + 1 < w, T(i + w + 1, 1, 1, 1, 16)))
      ELSE If(px + 1 < w, T(i + 1, 1, 0, 1, 8))
           \o If(px + 2 < w, T(i + 2, 2, 0, 1, 8))
           \o If(py + 1 < h,
                 If(px - 1 >= 0, T(i + w - 1, -1, 1, 1, 8))
                 \o T(i + w, 0, 1, 1, 8)
                 \o If(px + 1 < w, T(i + w + 1, 1, 1, 1, 8)))
           \o If(py + 2 < h, T(i + 2 * w, 0, 2, 1, 8))

\* the error-diffusion writes of one pixel, in the order of the source: the
\* index written, the neighbour meant (dx, dy) and the fraction of the error
diffusionTargets(method, px, py, w, h) ==
  LET i == py * w + px
      T(idx, dx, dy, num, den) ==
        <<[idx |-> idx, dx |-> dx, dy |-> dy, num |-> num, den |-> den]>>
      If(c, t) == IF c THEN t ELSE <<>>
  IN  IF method = FLOYD_STEINBERG
      THEN If(px + 1 < w, T(i + 1, 1, 0, 7, 16))
           \o If(py + 1 < h,
                 If(px - 1 >= 0, T(i + w - 1, -1, 1, 3, 16))
                 \o T(i + w, 0, 1, 5, 16)
                 \o If(px + 1 < w, T(i + w + 1, 1, 1, 1, 16)))
      ELSE IF method = ATKINSON
      THEN If(px + 1 < w, T(i + 1, 1, 0, 1, 8))
           \o If(px + 2 < w, T(i + 2, 2, 0, 1, 8))
           \o If(py + 1 < h,
                 If(px - 1 >= 0, T(i + w - 1, -1, 1, 1, 8))
                 \o T(i + w, 0, 1, 1, 8)
                 \o If(px + 1 < w, T(i + w + 1, 1, 1, 1, 8)))
           \o If(py + 2 < h, T(i + 2 * w, 0, 2, 1, 8))
      ELSE <<>>

\* buffer[idx] += quantError * (num / den): the sum is a double, the store
\* rounds it to single precision; a Float32Array ignores a store outside it
bufferAdd(buf, idx, quantError, num, den) ==
  IF idx \in DOMAIN buf
  THEN [buf EXCEPT ![idx] =
          Fround(DAdd(buf[idx], DMul(quantError, DDiv(Num(num), Num(den)))))]
  ELSE buf

RECURSIVE diffuse(_, _, _, _)
diffuse(buf, targets, quantError, n) ==
  IF n > Len(targets) THEN buf
  ELSE diffuse(bufferAdd(buf, targets[n].idx, quantError,
                         targets[n].num, targets[n].den),
               targets, quantError, n + 1)

\* ditherStep without the statement buffer[i] = newPixel
ditherStepKeepsOld(s, buf, px, py, w, h, u, b4, b8) ==
  LET i == py * w + px
      oldPixel == buf[i]
      newPixel == Num(newPixelOf(s, oldPixel, px, py, u, b4, b8))
      quantError == DSub(oldPixel, newPixel)
  IN  diffuse(buf, diffusionTargets(s.method, px, py, w, h), quantError, 1)

\* the grey buffer after the body of the dithering loop at column px, row py
ditherStep(s, buf, px, py, w, h, u, b4, b8) ==
  LET i == py * w + px
      oldPixel == buf[i]
      newPixel == Num(newPixelOf(s, oldPixel, px, py, u, b4, b8))
      quantError == DSub(oldPixel, newPixel)
  IN  diffuse([buf EXCEPT ![i] = Fround(newPixel)],
              diffusionTargets(s.method, px, py, w, h), quantError, 1)

VARIABLES
  bayer4,    \* the module's two arrays of ordered-dither thresholds
  bayer8,
  pc,        \* where processImage is: "start", "dither", "write", "done"
  width,     \* the arguments of processImage
  height,
  settings,
  data,      \* imageData.data, the RGBA bytes, indexed from 0
  buffer,    \* the Float32Array of grey values, indexed from 0
  x,         \* the loop variables of the dithering loop
  y,
  random,    \* the values Math.random() returns, in order (then over again)
  calls,     \* the number of calls of Math.random() made
  source,    \* history: data as it was passed in
  toned,     \* history: buffer as the greyscale loop left it
  writes,    \* history: the diffusion writes of the last step
  pass,      \* the number of the call of processImage: 1, or 2 when it is
             \* called again on the image it has returned
  API_KEY,          \* geminiService: process.env.API_KEY || ''
  imageSrc,         \* the state of App as last rendered
  appSettings,      \* App's state called settings, as last rendered
  isProcessingVibe,
  vibeReasoning,
  vibePc,           \* where handleVibeCheck is ("idle", "decode", "generate",
                    \* or "rejected": ended by an exception), and its img
  localValue,       \* of each ExpressiveSlider
  debounceTimer,    \* of each ExpressiveSlider: the pending timeout, if any
                    \* (a sequence of length 0 or 1)
  loading,          \* the images of the processing effect not yet loaded
  display,          \* what was last drawn on the display canvas, if anything
                    \* (a sequence of length 0 or 1)
  runs,             \* the number of runs of the processing effect
  events,           \* the number of user events so far
  pending,          \* the state updates queued and not yet rendered, of each
                    \* of the four states of App
  localPending,     \* the calls of setLocalValue queued and not yet rendered,
                    \* of each ExpressiveSlider
  effects,          \* the passive effects of the last commit that have not
                    \* run yet (a sequence of length 0 or 1)
  dead              \* a render has thrown: React has unmounted the application

\* the state of the application
app == <<API_KEY, imageSrc, appSettings, isProcessingVibe, vibeReasoning,
         vibePc, localValue, debounceTimer, loading, display, runs, events,
         pending, localPending, effects, dead>>

\* what no step of processImage changes
frame == <<pass, app>>

vars == <<bayer4, bayer8, pc, width, height, settings, data, buffer, x, y, random, calls,
          source, toned, writes, frame>>

MaxW == 4

MaxH == 3

TapeLen == 2

\* RGBA samples the images are made of
Black == <<0, 0, 0, 255>>

Grey128 == <<128, 128, 128, 255>>

Grey200 == <<200, 200, 200, 0>>

Orange == <<250, 100, 30, 128>>

\* <<background, spot>>: an image is of one colour but for one pixel
Palettes ==
  { <<Black, Grey200>>, <<Grey128, Grey128>>, <<Orange, Black>>,
    <<Grey128, Orange>> }

Thresholds == {0, 128, 255}

\* <<contrast, brightness>>
Tones == { <<0, 0>>, <<100, 40>>, <<-100, 100>>, <<259, -72>> }

\* Math.random() gives a double u with 0 <= u < 1
RandomVals ==
  { Num(0), DDiv(Num(1), Num(2)), DSub(Num(1), Fin(1, <<1>>, -53)) }

RandomTapes == [1..TapeLen -> RandomVals]

\* a w x h image of colour bg with the pixel at column 1 of row 0 (the only
\* pixel, when the image has one column) of colour fg
SpotImage(w, h, bg, fg) ==
  [idx \in 0..(4 * w * h - 1) |->
     IF idx \div 4 = MinInt(1, w - 1) THEN fg[(idx % 4) + 1]
     ELSE bg[(idx % 4) + 1]]

ImagesOf(w, h, palettes) == { SpotImage(w, h, p[1], p[2]) : p \in palettes }

Images(w, h) == ImagesOf(w, h, Palettes)

SettingsSet(methods) ==
  { [method |-> m, threshold |-> t, pixelSize |-> 2, contrast |-> tone[1],
     brightness |-> tone[2]] :
      m \in methods, t \in Thresholds, tone \in Tones }

\* JavaScript's null
Null == "null"

DEFAULT_SETTINGS ==
  [method |-> ATKINSON, threshold |-> 128, pixelSize |-> 2, contrast |-> 10,
   brightness |-> 0, greyscale |-> TRUE]

Sliders == {"threshold", "pixelSize", "contrast", "brightness"}

\* the states of App that the handlers set
Hooks == {"imageSrc", "settings", "isProcessingVibe", "vibeReasoning"}

\* App and Controls are mounted: the useState initial values
Mounted(keys) ==
  /\ API_KEY \in keys
  /\ imageSrc = Null
  /\ appSettings = DEFAULT_SETTINGS
  /\ isProcessingVibe = FALSE
  /\ vibeReasoning = Null
  /\ vibePc = [at |-> "idle", img |-> Null]
  /\ localValue = [k \in Sliders |-> DEFAULT_SETTINGS[k]]
  /\ debounceTimer = [k \in Sliders |-> <<>>]
  /\ loading = {}
  /\ display = <<>>
  /\ runs = 0
  /\ events = 0
  /\ pending = [h \in Hooks |-> <<>>]
  /\ localPending = [k \in Sliders |-> <<>>]
  /\ effects = <<>>
  /\ dead = FALSE

\* processImage is entered: the buffer is a new Float32Array, all zero
Entry(ws, hs, palettes, settingsSet) ==
  /\ bayer4 = Bayer4Matrix
  /\ bayer8 = Bayer8Matrix
  /\ pc = "start"
  /\ width \in ws
  /\ height \in hs
  /\ settings \in settingsSet
  /\ data \in ImagesOf(width, height, palettes)
  /\ buffer = [j \in 0..(width * height - 1) |-> Num(0)]
  /\ x = 0
  /\ y = 0
  /\ random \in (IF settings.method = NOISE THEN RandomTapes
                 ELSE {[k \in 1..TapeLen |-> Num(0)]})
  /\ calls = 0
  /\ source = data
  /\ toned = buffer
  /\ writes = <<>>
  /\ pass = 1

StartOn(ws, hs, palettes, settingsSet) ==
  /\ Mounted({""})
  /\ Entry(ws, hs, palettes, settingsSet)

Start(ws, hs, methods) == StartOn(ws, hs, Palettes, SettingsSet(methods))

\* images of one pixel, one row, one column, and MaxW x MaxH
Init == Start({1, MaxW}, {1, MaxH}, DitherMethod)

\* the greyscale loop: buffer[i / 4] = applyFilters(data[i], data[i+1], data[i+2])
Greyscale ==
  /\ pc = "start"
  /\ buffer' = greyscale(settings, data, width, height)
  /\ toned' = buffer'
  /\ pc' = "dither"
  /\ UNCHANGED <<bayer4, bayer8, width, height, settings, data, x, y, random,
                 calls, source, writes, frame>>

\* one iteration of the dithering loop, at column x and row y
DitherPixel ==
  /\ pc = "dither"
  /\ buffer' = ditherStep(settings, buffer, x, y, width, height,
                          random[(calls % TapeLen) + 1], bayer4, bayer8)
  /\ calls' = IF settings.method = NOISE THEN calls + 1 ELSE calls
  /\ writes' = diffusionTargets(settings.method, x, y, width, height)
  /\ IF x + 1 < width
     THEN x' = x + 1 /\ y' = y /\ pc' = pc
     ELSE /\ x' = 0
          /\ y' = y + 1
          /\ pc' = IF y + 1 < height THEN "dither" ELSE "write"
  /\ UNCHANGED <<bayer4, bayer8, width, height, settings, data, random,
                 source, toned, frame>>

\* WriteBack without the statement data[idx + 3] = 255
WriteBackKeepsAlpha ==
  /\ pc = "write"
  /\ data' = [idx \in DOMAIN data |->
                IF idx % 4 = 3 THEN data[idx]
                ELSE ToUint8Clamp(buffer[idx \div 4])]
  /\ pc' = "done"
  /\ UNCHANGED <<bayer4, bayer8, width, height, settings, buffer, x, y,
                 random, calls, source, toned, writes, frame>>

\* the write-back loop and putImageData
WriteBack ==
  /\ pc = "write"
  /\ data' = [idx \in DOMAIN data |->
                IF idx % 4 = 3 THEN 255 ELSE ToUint8Clamp(buffer[idx \div 4])]
  /\ pc' = "done"
  /\ UNCHANGED <<bayer4, bayer8, width, height, settings, buffer, x, y,
                 random, calls, source, toned, writes, frame>>

Next == Greyscale \/ DitherPixel \/ WriteBack

Spec == Init /\ [][Next]_vars

BayerW == 9

BayerH == 9

\* ordered dithering of images wider and higher than both matrices
InitBayer == Start({BayerW}, {BayerH}, {BAYER_4, BAYER_8})

SpecBayer == InitBayer /\ [][Next]_vars

\* the degenerate contrast 259, for which the contrast factor is a division
\* by zero: <<contrast, brightness>>
DegenerateTones == { <<259, -72>>, <<259, 0>> }

InitDegenerate ==
  StartOn({1, MaxW}, {1, MaxH}, Palettes,
          { [method |-> m, threshold |-> t, pixelSize |-> 2,
             contrast |-> tone[1], brightness |-> tone[2]] :
              m \in DitherMethod, t \in Thresholds, tone \in DegenerateTones })

SpecDegenerate == InitDegenerate /\ [][Next]_vars

\* greys 30 below and 30 above the threshold 128, and 30 below 255
Grey98 == <<98, 98, 98, 255>>

Grey158 == <<158, 158, 158, 255>>

Grey225 == <<225, 225, 225, 255>>

\* a colour of luminance just under 98
NearGrey98 == <<98, 98, 97, 255>>

NoisePalettes ==
  { <<Grey98, NearGrey98>>, <<Grey158, Grey98>>, <<Grey128, Grey158>>,
    <<Grey225, Grey225>> }

\* NOISE mode on greys at and between the ends of the band of the noise
InitNoise ==
  StartOn({1, MaxW}, {1, MaxH}, NoisePalettes,
          { [method |-> NOISE, threshold |-> t, pixelSize |-> 2,
             contrast |-> 0, brightness |-> 0] : t \in Thresholds })

SpecNoise == InitNoise /\ [][Next]_vars

\* processImage is called again, with the same settings, on the image it has
\* returned
ProcessAgain ==
  /\ pc = "done"
  /\ pass = 1
  /\ pass' = 2
  /\ pc' = "start"
  /\ source' = data
  /\ buffer' = [j \in 0..(width * height - 1) |-> Num(0)]
  /\ toned' = buffer'
  /\ x' = 0
  /\ y' = 0
  /\ writes' = <<>>
  /\ UNCHANGED <<bayer4, bayer8, width, height, settings, data, random, calls,
                 app>>

NextTwice == Next \/ ProcessAgain

\* two calls in a row, for the methods that draw no random number
InitTwice ==
  Start({1, MaxW}, {1, MaxH},
        {THRESHOLD, FLOYD_STEINBERG, ATKINSON, BAYER_4, BAYER_8})

SpecTwice == InitTwice /\ [][NextTwice]_vars


(***************************************************************************)
(* The application: App, Controls and getSmartVibe                         *)
(***************************************************************************)
\* the process of processImage, which the handlers of App leave as it is
process ==
  <<bayer4, bayer8, pc, width, height, settings, data, buffer, x, y, random,
    calls, source, toned, writes, pass>>

MaxEvents == 3

\* the natural width and height of the images dropped
NaturalW == 2

NaturalH == 1

MAX_PROC_WIDTH == 1000

\* the files dropped: two images of one colour each, and a file of an image
\* type whose content does not decode
ImageFiles == {"dark", "light", "broken"}

Decodes(src) == src # "broken"

ColourOf(src) == IF src = "dark" THEN <<60, 60, 60, 255>> ELSE Grey158

\* origCtx.drawImage(img, 0, 0, w, h) on the canvas just resized: an image of
\* one opaque colour, scaled to w x h
drawImage(src, w, h) == SpotImage(w, h, ColourOf(src), ColourOf(src))

\* procWidth and procHeight: Math.ceil(n / pixelSize), for integers n >= 0 and
\* pixelSize >= 1 (the quotient of the two is rounded by less than it is away
\* from the next integer, so that its ceiling is that of the exact quotient)
procSize(n, pixelSize) == (n + pixelSize - 1) \div pixelSize

\* <<finalProcWidth, finalProcHeight>> for an image of w x h
finalProcSize(w, h, pixelSize) ==
  LET procWidth == procSize(w, pixelSize)
      procHeight == procSize(h, pixelSize)
      ratio == DDiv(Num(MAX_PROC_WIDTH), Num(procWidth))
  IN  IF procWidth > MAX_PROC_WIDTH
      THEN <<MAX_PROC_WIDTH, MathFloor(DMul(Num(procHeight), ratio))>>
      ELSE <<procWidth, procHeight>>

\* the dithering loop of processImage from pixel i on; the buffer each step
\* leaves is computed (next = next) before the next step reads it
RECURSIVE ditherFrom(_, _, _, _, _, _, _, _)
ditherFrom(s, buf, i, w, h, tape, b4, b8) ==
  IF i >= w * h THEN buf
  ELSE CHOOSE result \in
         { ditherFrom(s, next, i + 1, w, h, tape, b4, b8) :
             next \in { b \in { ditherStep(s, buf, i % w, i \div w, w, h,
                                           tape[(i % TapeLen) + 1], b4, b8) } :
                          b = b } } : TRUE

\* imageData.data after processImage(ctx, w, h, s) on the bytes d: the
\* greyscale loop, then the dithering loop, then the loop that writes back
processImageOf(s, d, w, h, tape, b4, b8) ==
  CHOOSE written \in
    { [idx \in DOMAIN d |->
         IF idx % 4 = 3 THEN 255 ELSE ToUint8Clamp(buf[idx \div 4])] :
        buf \in { ditherFrom(s, grey, 0, w, h, tape, b4, b8) :
                    grey \in { g \in {greyscale(s, d, w, h)} : g = g } } } :
      TRUE

\* what the onload callback of the processing effect leaves on the display
\* canvas for the image src and the settings s
Rendered(src, s) ==
  LET size == finalProcSize(NaturalW, NaturalH, s.pixelSize)
      w == size[1]
      h == size[2]
  IN  [width |-> w, height |-> h,
       data |-> processImageOf(s, drawImage(src, w, h), w, h, random,
                               bayer4, bayer8)]

\* { ...prev, ...upd }
Spread(prev, upd) ==
  [f \in DOMAIN prev \cup DOMAIN upd |->
     IF f \in DOMAIN upd THEN upd[f] ELSE prev[f]]

\* the answer of getSmartVibe when the call of the model fails
FallbackVibe ==
  [settings |-> [method |-> FLOYD_STEINBERG, threshold |-> 128,
                 contrast |-> 10, brightness |-> 0, pixelSize |-> 1],
   reasoning |-> "AI was unavailable, so we applied a classic default."]

\* answers of the model: pixelSize is not required by the schema
AIVibes ==
  { [settings |-> [method |-> THRESHOLD, threshold |-> 100, contrast |-> 20,
                   brightness |-> -10],
     reasoning |-> "high detail"] }

\* how ai.models.generateContent settles: with an answer of the schema, with
\* an error, with an empty text, or with a text that is JSON but no object
\* (null)
Outcomes == {"ok", "error", "empty", "null"}

\* the values the sliders are moved to, and the algorithm buttons pressed
SliderMoves == { <<"threshold", 255>>, <<"pixelSize", 1>>, <<"contrast", -100>> }

ButtonMethods == {THRESHOLD, BAYER_4}

\* a queued update: setX(value), or for settings setSettings(object) ("set")
\* and setSettings(prev => ({ ...prev, ...arg })) ("spread"). An update made
\* in a React event handler is rendered before the handler's event ends; one
\* made in a timer, a FileReader or a promise callback, or in an effect, is
\* rendered later. done tells that a render has applied the update already:
\* it is still queued because an update before it was not applied.
SetValue(v, done) == [value |-> v, done |-> done]

SetSettings(s, done) == [op |-> "set", arg |-> s, done |-> done]

SpreadSettings(u) == [op |-> "spread", arg |-> u, done |-> FALSE]

\* setSettings(prev => ({ ...prev, ...vibe.settings })) with vibe null: the
\* updater throws a TypeError when it is called
ThrowingUpdater == [op |-> "throw", arg |-> Null, done |-> FALSE]

\* the queues q with the updates us (a function of a subset of Hooks) added
Queued(q, us) ==
  [h \in Hooks |-> IF h \in DOMAIN us THEN Append(q[h], us[h]) ELSE q[h]]

\* the updates of the queue that a render applies: all of them, or those
\* only that came from event handlers
Applied(queue, all) == {i \in 1..Len(queue) : all \/ queue[i].done}

LastOf(I) == CHOOSE i \in I : \A j \in I : j <= i

\* the state after the render, for a state set to values
valueAfter(state, queue, all) ==
  LET I == Applied(queue, all)
  IN  IF I = {} THEN state ELSE queue[LastOf(I)].value

\* an updater of the queue throws when a render calls it
Throws(queue) == \E i \in 1..Len(queue) : queue[i].op = "throw"

\* the settings after the updates of a queue none of which throws
RECURSIVE reduceSettings(_, _, _)
reduceSettings(state, queue, i) ==
  IF i > Len(queue) THEN state
  ELSE reduceSettings(IF queue[i].op = "set" THEN queue[i].arg
                      ELSE Spread(state, queue[i].arg),
                      queue, i + 1)

\* the settings after the render (the updates of event handlers are objects)
settingsAfter(state, queue, all) ==
  LET I == Applied(queue, all)
  IN  IF all THEN reduceSettings(state, queue, 1)
      ELSE IF I = {} THEN state ELSE queue[LastOf(I)].arg

\* what stays queued after the render
retained(queue, all) ==
  IF ~all /\ (\E i \in 1..Len(queue) : ~queue[i].done) THEN queue ELSE <<>>

\* the part of the state that the renders and the effects change
React ==
  [imageSrc |-> imageSrc, settings |-> appSettings,
   isProcessingVibe |-> isProcessingVibe, vibeReasoning |-> vibeReasoning,
   localValue |-> localValue, pending |-> pending,
   localPending |-> localPending, effects |-> effects, loading |-> loading,
   runs |-> runs]

\* that part of the state becomes new
Becomes(new) ==
  \E w \in {new} :
    /\ imageSrc' = w.imageSrc
    /\ appSettings' = w.settings
    /\ isProcessingVibe' = w.isProcessingVibe
    /\ vibeReasoning' = w.vibeReasoning
    /\ localValue' = w.localValue
    /\ pending' = w.pending
    /\ localPending' = w.localPending
    /\ effects' = w.effects
    /\ loading' = w.loading
    /\ runs' = w.runs

\* the passive effects of the last commit run, if they have not yet. The
\* processing effect (useEffect on [imageSrc, settings]) returns at once when
\* there is no image, and else makes a new Image to load imageSrc, its onload
\* bound to the imageSrc and the settings of the render; each ExpressiveSlider
\* whose value has changed calls setLocalValue(value), which is queued
flushPassiveEffects(w) ==
  IF w.effects = <<>> THEN w
  ELSE LET e == w.effects[1]
           loads == e.process /\ e.imageSrc # Null
       IN  [w EXCEPT
              !.effects = <<>>,
              !.loading =
                 IF loads
                 THEN w.loading \cup {[run |-> w.runs + 1, src |-> e.imageSrc,
                                       settings |-> e.settings]}
                 ELSE w.loading,
              !.runs = IF loads THEN w.runs + 1 ELSE w.runs,
              !.localPending =
                 [k \in Sliders |->
                    IF k \in e.sync
                    THEN Append(w.localPending[k],
                                SetValue(e.settings[k], FALSE))
                    ELSE w.localPending[k]]]

\* React renders App and the sliders, applying all the queued updates or
\* those of event handlers only, and commits; the effects whose dependencies
\* have changed are left to run. newObject tells that the settings will be an
\* object other than that of the last render
renderRoot(w, all, newObject) ==
  LET src == valueAfter(w.imageSrc, w.pending.imageSrc, all)
      s == settingsAfter(w.settings, w.pending.settings, all)
      processing == src # w.imageSrc \/ newObject
      sync == {k \in Sliders : s[k] # w.settings[k]}
  IN  [w EXCEPT
         !.imageSrc = src,
         !.settings = s,
         !.isProcessingVibe =
            valueAfter(w.isProcessingVibe, w.pending.isProcessingVibe, all),
         !.vibeReasoning =
            valueAfter(w.vibeReasoning, w.pending.vibeReasoning, all),
         !.pending = [h \in Hooks |-> retained(w.pending[h], all)],
         !.localValue =
            [k \in Sliders |->
               valueAfter(w.localValue[k], w.localPending[k], all)],
         !.localPending =
            [k \in Sliders |-> retained(w.localPending[k], all)],
         !.effects =
            IF processing \/ sync # {}
            THEN <<[imageSrc |-> src, settings |-> s, process |-> processing,
                    sync |-> sync]>>
            ELSE <<>>]

\* the render of a click or an input event: React runs the effects left over
\* from the commit before, renders the updates of the event's handler and
\* runs the effects of this commit before the event ends
renderDiscrete(queued, newObject) ==
  \E w \in {queued} :
    \E before \in {flushPassiveEffects(w)} :
      \E committed \in {renderRoot(before, FALSE, newObject)} :
        Becomes(flushPassiveEffects(committed))

\* React renders what timers, FileReaders, promises and effects have queued
\* (after the effects left over from the commit before); the effects of this
\* commit run later. A render in which an updater throws is the end of the
\* application: App has no error boundary, and React unmounts it
Render ==
  /\ ~dead
  /\ \/ \E h \in Hooks : pending[h] # <<>>
     \/ \E k \in Sliders : localPending[k] # <<>>
  /\ IF Throws(pending.settings)
     THEN /\ \E before \in {flushPassiveEffects(React)} :
               Becomes([before EXCEPT
                          !.pending = [h \in Hooks |-> <<>>],
                          !.localPending = [k \in Sliders |-> <<>>]])
          /\ dead' = TRUE
          /\ display' = <<>>
     ELSE /\ \E before \in {flushPassiveEffects(React)} :
               Becomes(renderRoot(before, TRUE,
                                  /\ pending.settings # <<>>
                                  /\ ~pending.settings[Len(pending.settings)].done))
          /\ UNCHANGED <<dead, display>>
  /\ UNCHANGED <<process, API_KEY, vibePc, debounceTimer, events>>

\* the effects of a commit run, some time after it
PassiveEffects ==
  /\ effects # <<>>
  /\ \E w \in {React} : Becomes(flushPassiveEffects(w))
  /\ UNCHANGED <<process, API_KEY, vibePc, debounceTimer, display, events,
                 dead>>

\* handleFile: a file of an image type is chosen and the FileReader has read
\* it (the theme that is then extracted from it is left out)
FileLoaded(src) ==
  /\ ~dead
  /\ events < MaxEvents
  /\ events' = events + 1
  /\ pending' = Queued(pending,
                       [imageSrc |-> SetValue(src, FALSE),
                        vibeReasoning |-> SetValue(Null, FALSE)])
  /\ UNCHANGED <<process, API_KEY, imageSrc, appSettings, isProcessingVibe,
                 vibeReasoning, vibePc, localValue, debounceTimer, loading,
                 display, runs, localPending, effects, dead>>

\* ExpressiveSlider.handleChange: setLocalValue(newValue) is rendered with
\* the event; the timeout is bound to the onChange, and so to the settings, of
\* the render in which the input is made
SliderInput(k, v) ==
  /\ ~dead
  /\ events < MaxEvents
  /\ events' = events + 1
  /\ renderDiscrete(
       [React EXCEPT !.localPending[k] = Append(@, SetValue(v, TRUE))],
       FALSE)
  /\ debounceTimer' =
       [debounceTimer EXCEPT ![k] = <<[value |-> v, settings |-> appSettings]>>]
  /\ UNCHANGED <<process, API_KEY, vibePc, display, dead>>

\* the timeout of slider k fires: handleSliderChange(k, value), that is
\* onChange({ ...settings, [k]: value }); setSettings does nothing once the
\* application is unmounted
TimerFires(k) ==
  /\ debounceTimer[k] # <<>>
  /\ LET t == debounceTimer[k][1]
         new == [t.settings EXCEPT ![k] = t.value]
     IN  pending' = IF dead THEN pending
                    ELSE Queued(pending, [settings |-> SetSettings(new, FALSE)])
  /\ debounceTimer' = [debounceTimer EXCEPT ![k] = <<>>]
  /\ UNCHANGED <<process, API_KEY, imageSrc, appSettings, isProcessingVibe,
                 vibeReasoning, vibePc, localValue, loading, display, runs,
                 events, localPending, effects, dead>>

\* an algorithm button: handleDirectChange('method', m), with the settings of
\* the last render
handleDirectChange(m) ==
  /\ ~dead
  /\ events < MaxEvents
  /\ events' = events + 1
  /\ LET new == [appSettings EXCEPT !.method = m]
     IN  renderDiscrete(
           [React EXCEPT
              !.pending = Queued(pending,
                                 [settings |-> SetSettings(new, TRUE)])],
           TRUE)
  /\ UNCHANGED <<process, API_KEY, vibePc, debounceTimer, display, dead>>

\* the Auto-Tune card is clicked: handleVibeCheck up to await img.decode()
handleVibeCheck ==
  /\ ~dead
  /\ events < MaxEvents
  /\ events' = events + 1
  /\ ~isProcessingVibe
  /\ imageSrc # Null
  /\ renderDiscrete(
       [React EXCEPT
          !.pending =
             Queued(pending,
                    [isProcessingVibe |-> SetValue(TRUE, TRUE),
                     vibeReasoning |-> SetValue(Null, TRUE)])],
       FALSE)
  /\ vibePc' = [at |-> "decode", img |-> imageSrc]
  /\ UNCHANGED <<process, API_KEY, debounceTimer, display, dead>>

\* img.decode() resolves; getSmartVibe is called, and throws before its try
\* when no key is configured
DecodeResolves ==
  /\ vibePc.at = "decode"
  /\ Decodes(vibePc.img)
  /\ vibePc' = [vibePc EXCEPT !.at = IF API_KEY = "" THEN "rejected"
                                     ELSE "generate"]
  /\ UNCHANGED <<process, API_KEY, imageSrc, appSettings, isProcessingVibe,
                 vibeReasoning, localValue, debounceTimer, loading, display,
                 runs, events, pending, localPending, effects, dead>>

\* img.decode() rejects
DecodeRejects ==
  /\ vibePc.at = "decode"
  /\ ~Decodes(vibePc.img)
  /\ vibePc' = [vibePc EXCEPT !.at = "rejected"]
  /\ UNCHANGED <<process, API_KEY, imageSrc, appSettings, isProcessingVibe,
                 vibeReasoning, localValue, debounceTimer, loading, display,
                 runs, events, pending, localPending, effects, dead>>

\* ai.models.generateContent settles. getSmartVibe returns the answer, or the
\* fallback after an error or an empty text, and handleVibeCheck queues its
\* three updates; the text null is parsed and returned, and handleVibeCheck
\* queues the updater of the settings and then throws on vibe.reasoning. The
\* setters do nothing once the application is unmounted
GenerateContentSettles(outcome) ==
  /\ vibePc.at = "generate"
  /\ IF outcome = "null"
     THEN /\ pending' = IF dead THEN pending
                        ELSE Queued(pending, [settings |-> ThrowingUpdater])
          /\ vibePc' = [vibePc EXCEPT !.at = "rejected"]
     ELSE /\ \E answer \in AIVibes :
               LET vibe == IF outcome = "ok" THEN answer ELSE FallbackVibe
               IN  pending' =
                     IF dead THEN pending
                     ELSE Queued(pending,
                                 [settings |-> SpreadSettings(vibe.settings),
                                  vibeReasoning |->
                                    SetValue(vibe.reasoning, FALSE),
                                  isProcessingVibe |-> SetValue(FALSE, FALSE)])
          /\ vibePc' = [at |-> "idle", img |-> Null]
  /\ UNCHANGED <<process, API_KEY, imageSrc, appSettings, isProcessingVibe,
                 vibeReasoning, localValue, debounceTimer, loading, display,
                 runs, events, localPending, effects, dead>>

\* img.onload of a run of the processing effect; once the application is
\* unmounted the canvases are gone, and the callback throws on the null ref
Onload(p) ==
  /\ p \in loading
  /\ Decodes(p.src)
  /\ display' = IF dead THEN display ELSE <<Rendered(p.src, p.settings)>>
  /\ loading' = loading \ {p}
  /\ UNCHANGED <<process, API_KEY, imageSrc, appSettings, isProcessingVibe,
                 vibeReasoning, vibePc, localValue, debounceTimer, runs,
                 events, pending, localPending, effects, dead>>

\* the image of a run of the processing effect fails to load: no handler
LoadFails(p) ==
  /\ p \in loading
  /\ ~Decodes(p.src)
  /\ loading' = loading \ {p}
  /\ UNCHANGED <<process, API_KEY, imageSrc, appSettings, isProcessingVibe,
                 vibeReasoning, vibePc, localValue, debounceTimer, display,
                 runs, events, pending, localPending, effects, dead>>

DecodeSettles == DecodeResolves \/ DecodeRejects

GenerateSettles == \E outcome \in Outcomes : GenerateContentSettles(outcome)

NextApp ==
  \/ \E src \in ImageFiles : FileLoaded(src)
  \/ \E m \in SliderMoves : SliderInput(m[1], m[2])
  \/ \E k \in Sliders : TimerFires(k)
  \/ \E m \in ButtonMethods : handleDirectChange(m)
  \/ handleVibeCheck
  \/ DecodeResolves
  \/ DecodeRejects
  \/ GenerateSettles
  \/ Render
  \/ PassiveEffects
  \/ \E p \in loading : Onload(p)
  \/ \E p \in loading : LoadFails(p)

\* the application is mounted, with and without a key configured
InitApp ==
  /\ Mounted({"", "key"})
  /\ Entry({1}, {1}, {<<Black, Black>>}, {DEFAULT_SETTINGS})

\* a promise that can settle does settle, React renders what is queued and
\* runs the effects of what it has committed
SpecApp ==
  /\ InitApp
  /\ [][NextApp]_vars
  /\ WF_vars(DecodeSettles)
  /\ WF_vars(GenerateSettles)
  /\ WF_vars(Render)
  /\ WF_vars(PassiveEffects)

(***************************************************************************)
(* Properties                                                              *)
(***************************************************************************)
Pixels == 0..(width * height - 1)

\* the settings are in the ranges the controls and the specification give
InDomain ==
  /\ settings.threshold \in 0..255
  /\ settings.contrast \in -100..100
  /\ settings.brightness \in -100..100

\* exact comparisons and differences of finite values
XSub(a, b) == XAdd(a, Neg(b))

XAbs(a) == [a EXCEPT !.s = 1]

XLeq(a, b) == LET d == XSub(b, a) IN IsZero(d) \/ d.s = 1

XLess(a, b) == ~XLeq(b, a)

\* 2^(-n)
TwoToMinus(n) == Fin(1, <<1>>, -n)

\* the index of the pixel the loop is at
Here == y * width + x

\* C1: for every method, every settings value and every input buffer, when
\* processImage has returned each pixel has R = G = B, that value being 0 or
\* 255, and alpha 255, whatever the input alpha was.
C1_OutputBlackOrWhiteOpaque ==
  pc = "done" =>
    \A j \in Pixels :
      /\ data[4 * j] \in {0, 255}
      /\ data[4 * j + 1] = data[4 * j]
      /\ data[4 * j + 2] = data[4 * j]
      /\ data[4 * j + 3] = 255

\* processImage has returned a black and a white pixel for an image with a
\* transparent pixel whose grey value was NaN
C1_Witness ==
  /\ pc = "done"
  /\ \E j \in Pixels : toned[j] = NaN /\ source[4 * j + 3] = 0
  /\ \E j, k \in Pixels : data[4 * j] = 0 /\ data[4 * k] = 255

\* C2: in THRESHOLD mode, with the settings in their ranges, the output of
\* every pixel is 255 if and only if its toned luminance is >= the threshold,
\* and 0 otherwise, whatever the other pixels are; a pixel whose toned
\* luminance equals the threshold gives 255.
C2_ThresholdCut ==
  (pc = "done" /\ settings.method = THRESHOLD /\ InDomain) =>
    \A j \in Pixels :
      /\ toned[j].k = "fin"
      /\ data[4 * j] =
           (IF XLeq(Num(settings.threshold), toned[j]) THEN 255 ELSE 0)

\* an all-grey (128,128,128) image cut at 128 has come out all white
C2_Witness ==
  /\ pc = "done"
  /\ settings.method = THRESHOLD
  /\ settings.threshold = 128
  /\ width * height > 1
  /\ \A j \in Pixels :
       source[4 * j] = 128 /\ toned[j] = Num(128) /\ data[4 * j] = 255

\* the formula of the specification in exact arithmetic, for pixel j of the input:
\* factor * ((0.299r + 0.587g + 0.114b + brightness) - 128) + 128 is
\* ToneNum(j) / ToneDen, for a contrast below 259
ToneDen == 1000 * 255 * (259 - settings.contrast)

ToneNum(j) ==
  XAdd(XMul(Num(259 * (settings.contrast + 255)),
            Num(299 * source[4 * j] + 587 * source[4 * j + 1]
                + 114 * source[4 * j + 2] + 1000 * settings.brightness
                - 128000)),
       XMul(Num(128), Num(ToneDen)))

\* ToneDen * clamp(ToneNum(j) / ToneDen, 0, 255)
ToneNumClamped(j) ==
  LET top == XMul(Num(255), Num(ToneDen))
  IN  IF XLeq(ToneNum(j), Num(0)) THEN Num(0)
      ELSE IF XLeq(top, ToneNum(j)) THEN top
      ELSE ToneNum(j)

\* v is the formula's value for pixel j to within 2^-16: the rounding of a
\* value of at most 255 to single precision is nearer than that
IsToneOf(v, j) ==
  /\ v.k = "fin"
  /\ XLeq(XAbs(XSub(XMul(v, Num(ToneDen)), ToneNumClamped(j))),
          XMul(Num(ToneDen), TwoToMinus(16)))

\* num / den for den 8 or 16: the doubles 1/8, 7/16, 3/16, 5/16 and 1/16
\* are these fractions exactly
Fraction(num, den) == Fin(1, <<num>>, IF den = 8 THEN -3 ELSE -4)

\* the binary value the comparison v < t ? 0 : 255 gives
CutOf(v, t) == IF v.k = "fin" /\ XLess(v, Num(t)) THEN 0 ELSE 255

\* C3: the grey value of each pixel is computed once, before any
\* quantization, as clamp(factor * ((0.299r + 0.587g + 0.114b + brightness)
\* - 128) + 128, 0, 255) with factor = 259 * (contrast + 255) / (255 * (259 -
\* contrast)), so for contrast in -100..100 it lies in [0, 255]; the
\* dithering loop decides on the value it reads as it is, and stores the sums
\* it writes as they are: no brightness, contrast or clamp is applied again.
C3_TonedOnceNeverAgain ==
  [][/\ pc = "start" =>
          /\ buffer' = toned'
          /\ InDomain =>
               \A j \in Pixels :
                 /\ IsToneOf(buffer'[j], j)
                 /\ XLeq(Num(0), buffer'[j])
                 /\ XLeq(buffer'[j], Num(255))
     /\ (/\ pc = "dither"
         /\ settings.method \in {THRESHOLD, FLOYD_STEINBERG, ATKINSON}) =>
          LET newPixel == Num(CutOf(buffer[Here], settings.threshold))
              quantError == DSub(buffer[Here], newPixel)
              sum(n) == Fround(DAdd(buffer[writes'[n].idx],
                                    DMul(quantError,
                                         Fraction(writes'[n].num,
                                                  writes'[n].den))))
          IN  /\ toned' = toned
              /\ buffer'[Here] = newPixel
              /\ \A n \in 1..Len(writes') : buffer'[writes'[n].idx] = sum(n)
    ]_vars

\* a black pixel, toned to 0 by the clamp under brightness 40, holds a
\* negative grey value after its neighbour's error has been diffused into it
C3_Witness ==
  /\ pc = "dither"
  /\ InDomain
  /\ settings.brightness = 40
  /\ \E j \in Pixels :
       /\ source[4 * j] = 0
       /\ toned[j] = Num(0)
       /\ buffer[j].k = "fin"
       /\ buffer[j].s = -1

\* the column and the row of pixel j
ColOf(j) == j % width

RowOf(j) == j \div width

\* the sixteenths of the error Floyd-Steinberg gives the neighbour at
\* (x + dx, y + dy), and the eighths Atkinson gives it
FloydSteinbergShare(dx, dy) ==
  IF <<dx, dy>> = <<1, 0>> THEN 7
  ELSE IF <<dx, dy>> = <<-1, 1>> THEN 3
  ELSE IF <<dx, dy>> = <<0, 1>> THEN 5
  ELSE IF <<dx, dy>> = <<1, 1>> THEN 1
  ELSE 0

AtkinsonShare(dx, dy) ==
  IF <<dx, dy>> \in {<<1, 0>>, <<2, 0>>, <<-1, 1>>, <<0, 1>>, <<1, 1>>, <<0, 2>>}
  THEN 1 ELSE 0

\* the share of pixel j in the error of the pixel the loop is at
ShareOf(j) ==
  IF settings.method = FLOYD_STEINBERG
  THEN FloydSteinbergShare(ColOf(j) - x, RowOf(j) - y)
  ELSE IF settings.method = ATKINSON
  THEN AtkinsonShare(ColOf(j) - x, RowOf(j) - y)
  ELSE 0

ShareDen == IF settings.method = ATKINSON THEN 8 ELSE 16

\* the entry of pixel j after old + quantError * share: the double sum, as a
\* Float32Array element holds it
Increased(old, quantError, share) ==
  Fround(DAdd(old, DMul(quantError, Fraction(share, ShareDen))))

\* every entry but that of the pixel the loop is at changes from buffer to
\* buffer' as the shares say
SharesGiven ==
  LET quantError == DSub(buffer[Here], buffer'[Here])
  IN  \A j \in Pixels \ {Here} :
        buffer'[j] = IF ShareOf(j) = 0 THEN buffer[j]
                     ELSE Increased(buffer[j], quantError, ShareOf(j))

\* the exact sum of the first n entries of f
RECURSIVE XSum(_, _)
XSum(f, n) == IF n = 0 THEN Num(0) ELSE XAdd(XSum(f, n - 1), f[n - 1])

\* the exact sum of the magnitudes of the entries of f that have a share
RECURSIVE XSumShared(_, _)
XSumShared(f, n) ==
  IF n = 0 THEN Num(0)
  ELSE IF ShareOf(n - 1) = 0 THEN XSumShared(f, n - 1)
  ELSE XAdd(XSumShared(f, n - 1), XAbs(f[n - 1]))

\* all the neighbours that have a share are inside the image
AllTargetsInBounds ==
  /\ x - 1 >= 0
  /\ IF settings.method = ATKINSON THEN x + 2 < width /\ y + 2 < height
     ELSE x + 1 < width /\ y + 1 < height

\* the exact change of the sum of all entries in a step, plus lost (the part
\* of the error the method discards)
SumChange(lost) ==
  XAdd(XSub(XSum(buffer', width * height), XSum(buffer, width * height)),
       lost)

\* what single-precision rounding of the updated entries can amount to:
\* 2^-23 of their magnitudes and that of the error
RoundingSlack ==
  XMul(TwoToMinus(23),
       XAdd(XSumShared(buffer', width * height),
            XAbs(XSub(buffer[Here], buffer'[Here]))))

\* C4: in FLOYD_STEINBERG mode, when pixel (x, y) has been decided with
\* quantError = old value - new binary value, the entries of exactly the
\* in-bounds neighbours (x+1, y), (x-1, y+1), (x, y+1) and (x+1, y+1) are
\* increased by 7/16, 3/16, 5/16 and 1/16 of quantError (each sum kept as the
\* single-precision buffer holds it), and no other entry but that of (x, y)
\* changes in the step.
C4_FloydSteinbergShares ==
  [][(pc = "dither" /\ settings.method = FLOYD_STEINBERG) =>
       /\ buffer'[Here] \in {Num(0), Num(255)}
       /\ SharesGiven]_vars

\* the bright pixel of a black image has been decided (200 became 255,
\* quantError -55) and its four neighbours hold -55 * 7/16, 3/16, 5/16, 1/16
C4_Witness ==
  /\ pc = "dither"
  /\ settings.method = FLOYD_STEINBERG
  /\ width = MaxW /\ height = MaxH
  /\ x = 2 /\ y = 0
  /\ toned[1] = Num(200)
  /\ buffer[1] = Num(255)
  /\ buffer[2] = Fin(-1, BFromInt(55 * 7), -4)
  /\ buffer[width] = Fin(-1, BFromInt(55 * 3), -4)
  /\ buffer[width + 1] = Fin(-1, BFromInt(55 * 5), -4)
  /\ buffer[width + 2] = Fin(-1, BFromInt(55), -4)

\* C5: in ATKINSON mode, when pixel (x, y) has been decided, each in-bounds
\* neighbour among (x+1, y), (x+2, y), (x-1, y+1), (x, y+1), (x+1, y+1) and
\* (x, y+2) receives quantError / 8 (the sum kept as the single-precision
\* buffer holds it) and nothing else is modified; when all six are in bounds
\* the sum of all entries drops by quantError / 4 to within the rounding of
\* the six updated entries to single precision: the difference is at most
\* 2^-23 of the magnitudes of these entries and of quantError.
C5_AtkinsonShares ==
  [][(pc = "dither" /\ settings.method = ATKINSON) =>
       /\ buffer'[Here] \in {Num(0), Num(255)}
       /\ SharesGiven
       /\ (InDomain /\ AllTargetsInBounds) =>
            XLeq(XAbs(SumChange(XMul(XSub(buffer[Here], buffer'[Here]),
                                     Fraction(2, 8)))),
                 RoundingSlack)]_vars

\* C5 as the specification states it: the sum of all entries drops by
\* exactly quantError / 4 when all six neighbours are in bounds.
C5_AsStated ==
  [][(pc = "dither" /\ settings.method = ATKINSON) =>
       /\ buffer'[Here] \in {Num(0), Num(255)}
       /\ SharesGiven
       /\ (InDomain /\ AllTargetsInBounds) =>
            IsZero(SumChange(XMul(XSub(buffer[Here], buffer'[Here]),
                                  Fraction(2, 8))))]_vars

\* the orange pixel of a grey image has been decided in ATKINSON mode and all
\* six neighbours, which are in the image, have received their eighth
C5_Witness ==
  /\ pc = "dither"
  /\ settings.method = ATKINSON
  /\ InDomain
  /\ x = 2 /\ y = 0
  /\ source[4] = 250
  /\ buffer[1] = Num(255)
  /\ Len(writes) = 6
  /\ \A n \in 1..6 : buffer[writes[n].idx] # toned[writes[n].idx]

\* the pixel the last step of the loop decided (the loop has moved on by one)
LastCol == (Here - 1) % width

LastRow == (Here - 1) \div width

\* the neighbours (dx, dy) of the stencil of the method
Stencil ==
  IF settings.method = FLOYD_STEINBERG
  THEN {<<1, 0>>, <<-1, 1>>, <<0, 1>>, <<1, 1>>}
  ELSE IF settings.method = ATKINSON
  THEN {<<1, 0>>, <<2, 0>>, <<-1, 1>>, <<0, 1>>, <<1, 1>>, <<0, 2>>}
  ELSE {}

\* C6: for every width and height >= 1 and every pixel position, each
\* error-diffusion write of FLOYD_STEINBERG and ATKINSON mode goes to an
\* index in [0, width * height) whose column and row are those of the
\* neighbour meant; a neighbour whose column is < 0 or >= width or whose row
\* is >= height is skipped (and no other is), so that no write wraps to the
\* other end of a row or to the next row, or is negative or past the end.
C6_WritesStayInBounds ==
  /\ DOMAIN buffer = Pixels
  /\ (pc \in {"dither", "write"} /\ Here >= 1) =>
       /\ \A n \in 1..Len(writes) :
            /\ writes[n].idx \in Pixels
            /\ ColOf(writes[n].idx) = LastCol + writes[n].dx
            /\ RowOf(writes[n].idx) = LastRow + writes[n].dy
       /\ {<<writes[n].dx, writes[n].dy>> : n \in 1..Len(writes)} =
            {d \in Stencil :
               /\ LastCol + d[1] \in 0..(width - 1)
               /\ LastRow + d[2] \in 0..(height - 1)}
       /\ \A m, n \in 1..Len(writes) :
            writes[m].idx = writes[n].idx => m = n

\* the last pixel of the first row has been decided in ATKINSON mode: the
\* three neighbours beyond the right edge were skipped, the three below
\* written
C6_Witness ==
  /\ pc = "dither"
  /\ settings.method = ATKINSON
  /\ width = MaxW /\ height = MaxH
  /\ x = 0 /\ y = 1
  /\ {<<writes[n].dx, writes[n].dy>> : n \in 1..Len(writes)} =
       {<<-1, 1>>, <<0, 1>>, <<0, 2>>}
  /\ \E n \in 1..Len(writes) : buffer[writes[n].idx] # toned[writes[n].idx]

\* C7: in FLOYD_STEINBERG mode, whenever the pixel decided has all four
\* diffusion targets in bounds, the sum of all entries is the same before and
\* after the step to within the rounding of the four updated entries to
\* single precision (at most 2^-23 of the magnitudes of these entries and of
\* quantError; the sum is the same exactly when no entry is rounded); beyond
\* that, the sum changes only at steps where a target was skipped.
C7_FloydSteinbergConserves ==
  [][(/\ pc = "dither"
      /\ settings.method = FLOYD_STEINBERG
      /\ InDomain
      /\ AllTargetsInBounds) =>
       XLeq(XAbs(SumChange(Num(0))), RoundingSlack)]_vars

\* C7 as the specification states it: the sum is exactly the same before and
\* after the step.
C7_AsStated ==
  [][(/\ pc = "dither"
      /\ settings.method = FLOYD_STEINBERG
      /\ InDomain
      /\ AllTargetsInBounds) =>
       IsZero(SumChange(Num(0)))]_vars

\* a pixel with all four targets in the image has been decided in
\* FLOYD_STEINBERG mode with an error that is not zero, and the four have
\* been written
C7_Witness ==
  /\ pc = "dither"
  /\ settings.method = FLOYD_STEINBERG
  /\ InDomain
  /\ x = 3 /\ y = 1
  /\ source[0] = 250
  /\ Len(writes) = 4
  /\ \A n \in 1..4 : buffer[writes[n].idx] # toned[writes[n].idx]

\* M[y mod n][x mod n] for pixel j, M the n x n matrix of the method
MatrixEntry(j) ==
  IF settings.method = BAYER_4
  THEN bayer4[(RowOf(j) % 4) + 1][(ColOf(j) % 4) + 1]
  ELSE bayer8[(RowOf(j) % 8) + 1][(ColOf(j) % 8) + 1]

BayerDivisor == IF settings.method = BAYER_4 THEN 16 ELSE 64

\* v < ((M[y mod n][x mod n] / divisor) * 255 + threshold) / 2 for pixel j, in
\* exact arithmetic: 2 * divisor * v < 255 * M[..][..] + divisor * threshold
BelowBayer(v, j) ==
  /\ v.k = "fin"
  /\ XLess(XMul(Num(2 * BayerDivisor), v),
           Num(255 * MatrixEntry(j) + BayerDivisor * settings.threshold))

\* C8: in BAYER_4 mode (the 4x4 matrix, divisor 16) and in BAYER_8 mode (the
\* 8x8 matrix, divisor 64) the pixel at column x and row y, of grey value v,
\* comes out 0 if and only if v < ((M[y mod n][x mod n] / divisor) * 255 +
\* settings.threshold) / 2, and 255 otherwise: the row of the matrix is
\* y mod n, the column x mod n.
C8_BayerCut ==
  (pc = "done" /\ settings.method \in {BAYER_4, BAYER_8}) =>
    \A j \in Pixels :
      data[4 * j] = (IF BelowBayer(toned[j], j) THEN 0 ELSE 255)

\* an all-grey image wider and higher than the 8x8 matrix has come out with
\* (1, 0) white and (0, 1) black, as have the pixels eight columns and eight
\* rows further
C8_Witness ==
  /\ pc = "done"
  /\ settings.method = BAYER_8
  /\ \A j \in Pixels : toned[j] = Num(128)
  /\ data[4 * 1] = 255 /\ data[4 * width] = 0
  /\ width > 8 /\ height > 8
  /\ data[4 * 8] = data[0] /\ data[4 * (8 * width)] = data[0]
  /\ data[4 * (8 * width + 1)] = 255

\* each of 0..(n * n - 1) is at exactly one place of the n x n matrix m
IsPermutation(m, n) ==
  /\ DOMAIN m = 1..n
  /\ \A r \in 1..n : DOMAIN m[r] = 1..n
  /\ \A v \in 0..(n * n - 1) :
       Cardinality({rc \in (1..n) \X (1..n) : m[rc[1]][rc[2]] = v}) = 1

\* C9: the two Bayer tables are permutations: the 4x4 table holds each of
\* 0..15 exactly once and the 8x8 table each of 0..63 exactly once, and no
\* operation modifies them: they are at all times what the module defines.
C9_BayerTablesPermutations ==
  /\ IsPermutation(bayer4, 4)
  /\ IsPermutation(bayer8, 8)
  /\ bayer4 = Bayer4Matrix
  /\ bayer8 = Bayer8Matrix

\* an image has been dithered with the 4x4 table, every entry of which was
\* read, to black and to white pixels
C9_Witness ==
  /\ pc = "done"
  /\ settings.method = BAYER_4
  /\ width >= 4 /\ height >= 4
  /\ \E j, k \in Pixels : data[4 * j] = 0 /\ data[4 * k] = 255

\* the output of pixel j as its own toned luminance v, its position, the
\* settings and its own random draw u give it
PixelAlone(j, v, u) ==
  IF settings.method \in {BAYER_4, BAYER_8}
  THEN (IF BelowBayer(v, j) THEN 0 ELSE 255)
  ELSE IF settings.method = NOISE
  THEN (IF DLess(DAdd(v, DMul(DSub(u, Fin(1, <<1>>, -1)), Num(60))),
                 Num(settings.threshold))
        THEN 0 ELSE 255)
  ELSE CutOf(v, settings.threshold)

\* C10: in THRESHOLD, BAYER_4, BAYER_8 and NOISE mode the step for pixel i
\* changes entry i of the grey buffer only, no other entry is written; so the
\* output of each pixel depends on its own toned luminance, its position, the
\* settings and (in NOISE mode) its own random draw only.
C10_NoNeighbourWritten ==
  [][settings.method \in {THRESHOLD, BAYER_4, BAYER_8, NOISE} =>
       /\ pc = "dither" =>
            /\ \A j \in Pixels \ {Here} : buffer'[j] = buffer[j]
            /\ writes' = <<>>
       /\ pc = "write" =>
            \A j \in Pixels :
              data'[4 * j] =
                PixelAlone(j, toned[j], random[(j % TapeLen) + 1])]_vars

\* two pixels of the same toned luminance have come out differently in NOISE
\* mode, each by its own draw
C10_Witness ==
  /\ pc = "done"
  /\ settings.method = NOISE
  /\ calls = width * height
  /\ width > 1
  /\ toned[0] = toned[1]
  /\ random[1] # random[2]
  /\ data[0] # data[4]

\* C11: for THRESHOLD, BAYER_4 and BAYER_8, with the settings in their ranges
\* (threshold 0..255, contrast and brightness -100..100), processImage
\* called with the same settings on the image it has returned returns that
\* image unchanged.
C11_Idempotent ==
  (/\ pc = "done"
   /\ pass = 2
   /\ settings.method \in {THRESHOLD, BAYER_4, BAYER_8}
   /\ InDomain) =>
    data = source

\* a second call in BAYER_4 mode has returned an image of black and white
\* pixels, whose toned values (contrast -100, brightness 100) were neither 0
\* nor 255
C11_Witness ==
  /\ pc = "done"
  /\ pass = 2
  /\ settings.method = BAYER_4
  /\ settings.contrast = -100
  /\ \E j, k \in Pixels :
       /\ source[4 * j] = 0 /\ data[4 * j] = 0
       /\ source[4 * k] = 255 /\ data[4 * k] = 255
       /\ toned[j] # Num(0)
       /\ toned[k] # Num(255)

\* every toned luminance of the image passed in is 0 or 255
TonedBinary == \A j \in Pixels : toned[j] \in {Num(0), Num(255)}

\* C12: for FLOYD_STEINBERG and ATKINSON, when every toned luminance of the
\* input is 0 or 255 and the threshold is in 1..255, the quantization error
\* of every pixel is 0 (the entry decided keeps its value), no neighbour's
\* value changes, and the image returned is the grey image passed in.
C12_BinaryFixedPoint ==
  [][(/\ settings.method \in {FLOYD_STEINBERG, ATKINSON}
      /\ settings.threshold \in 1..255
      /\ pc \in {"dither", "write"}
      /\ TonedBinary) =>
       /\ pc = "dither" =>
            /\ IsZero(DSub(buffer[Here], buffer'[Here]))
            /\ buffer' = buffer
            /\ buffer = toned
       /\ pc = "write" =>
            \A j \in Pixels :
              /\ Num(data'[4 * j]) = toned[j]
              /\ data'[4 * j + 1] = data'[4 * j]
              /\ data'[4 * j + 2] = data'[4 * j]]_vars

\* ATKINSON, called on an image of black and white pixels that it had
\* returned itself, has returned it again
C12_Witness ==
  /\ pc = "done"
  /\ pass = 2
  /\ settings.method = ATKINSON
  /\ settings.threshold = 128
  /\ TonedBinary
  /\ \E j, k \in Pixels : toned[j] = Num(0) /\ toned[k] = Num(255)
  /\ \A j \in Pixels : Num(data[4 * j]) = toned[j] /\ data[4 * j] = source[4 * j]

\* the number of steps processImage has made: 1 for the greyscale loop, 1
\* for each pixel decided, 1 for the write-back
StepsMade ==
  IF pc = "start" THEN 0
  ELSE IF pc = "dither" THEN 1 + Here
  ELSE IF pc = "write" THEN 1 + width * height
  ELSE 2 + width * height

\* C13: with contrast = 259 (the contrast factor divides by zero)
\* processImage runs to its end for every method and every input (each step
\* is one step further in the loops, none is cut short, and the step after
\* the last pixel's is the return), and no value that is not finite reaches
\* the output: every R, G and B is 0 or 255 and alpha is 255, also for pixels
\* whose luminance plus brightness is exactly 128 (whose grey value is NaN)
\* and in the error-diffusion modes, where the error is added to the
\* neighbours.
C13_DegenerateContrast ==
  [][settings.contrast = 259 =>
       /\ StepsMade' = StepsMade + 1
       /\ DOMAIN buffer' = Pixels
       /\ (pc' = "done") = (StepsMade' = 2 + width * height)
       /\ pc' = "done" =>
            \A j \in Pixels :
              /\ data'[4 * j] \in {0, 255}
              /\ data'[4 * j + 1] = data'[4 * j]
              /\ data'[4 * j + 2] = data'[4 * j]
              /\ data'[4 * j + 3] = 255]_vars

\* FLOYD_STEINBERG has run to its end on an image with a pixel whose grey
\* value was NaN; its neighbour to the east, black and toned to 0, has come
\* out white by the error it received
C13_Witness ==
  /\ pc = "done"
  /\ settings.contrast = 259
  /\ settings.method = FLOYD_STEINBERG
  /\ settings.threshold = 128
  /\ width = MaxW
  /\ toned[1] = NaN
  /\ toned[2] = Num(0)
  /\ data[8] = 255
  /\ source[7] = 0

\* the draw of pixel j
DrawOf(j) == random[(j % TapeLen) + 1]

\* every noise term n is such that -30 <= n < 30
NoiseInBand ==
  \A k \in 1..TapeLen :
    /\ XLeq(Num(-30), noiseOf(random[k]))
    /\ XLess(noiseOf(random[k]), Num(30))

\* C14: in NOISE mode the value compared with settings.threshold is the toned
\* luminance plus a noise term n of the pixel with -30 <= n < 30; for every
\* draw a pixel with toned luminance >= threshold + 30 gives 255 and a pixel
\* with toned luminance < threshold - 30 gives 0: only the pixels with
\* threshold - 30 <= toned luminance < threshold + 30 can differ from run to
\* run.
C14_NoiseBand ==
  (pc = "done" /\ settings.method = NOISE /\ InDomain) =>
    /\ NoiseInBand
    /\ \A j \in Pixels :
         /\ XLeq(Num(settings.threshold + 30), toned[j]) => data[4 * j] = 255
         /\ XLess(toned[j], Num(settings.threshold - 30)) => data[4 * j] = 0

\* C14 as the specification states it: a pixel with toned luminance
\* <= threshold - 30 gives 0 for every draw.
C14_AsStated ==
  (pc = "done" /\ settings.method = NOISE /\ InDomain) =>
    /\ NoiseInBand
    /\ \A j \in Pixels :
         /\ XLeq(Num(settings.threshold + 30), toned[j]) => data[4 * j] = 255
         /\ XLeq(toned[j], Num(settings.threshold - 30)) => data[4 * j] = 0

\* at threshold 128 a pixel of luminance 158 has come out white with the
\* lowest draw, one of luminance 98 white with the highest, and at threshold
\* 255 a pixel of luminance 158 black with the highest draw
C14_Witness ==
  /\ pc = "done"
  /\ settings.method = NOISE
  /\ \E j \in Pixels :
       \/ /\ settings.threshold = 128
          /\ toned[j] = Num(158)
          /\ DrawOf(j) = Num(0)
          /\ data[4 * j] = 255
          /\ \E k \in Pixels :
               /\ toned[k] = Num(98)
               /\ noiseOf(DrawOf(k)) # Num(-30)
               /\ data[4 * k] = 255

\* pixel j is a neighbour, in the stencil of the method, of a pixel before
\* pixel i
ReachedBefore(i, j) ==
  \E k \in Pixels :
    /\ k < i
    /\ \E d \in Stencil :
         /\ ColOf(j) = ColOf(k) + d[1]
         /\ RowOf(j) = RowOf(k) + d[2]

Binary == {Num(0), Num(255)}

\* C15: the quantization pass decides each pixel once, in row-major order
\* (the index y * width + x grows by one at every step), and every diffusion
\* write made while pixel i is processed goes to an index > i: a binary value
\* once written is never changed, and the value a pixel is decided on is its
\* toned luminance changed only by the steps of pixels decided before it
\* (it is still the toned luminance when no earlier pixel has it in its
\* stencil).
C15_DecidedOnceInOrder ==
  [][pc = "dither" =>
       /\ Here \in Pixels
       /\ Here' = Here + 1
       /\ (pc' = "write") = (Here' = width * height)
       /\ buffer'[Here] \in Binary
       /\ \A n \in 1..Len(writes') : writes'[n].idx > Here
       /\ \A j \in Pixels :
            /\ j < Here => buffer[j] \in Binary /\ buffer'[j] = buffer[j]
            /\ (j > Here /\ buffer'[j] # buffer[j]) =>
                 \E n \in 1..Len(writes') : writes'[n].idx = j
            /\ (j >= Here /\ ~ReachedBefore(Here, j)) => buffer[j] = toned[j]
     ]_vars

\* in FLOYD_STEINBERG mode the pixel at column 2 of row 1 is next: the step
\* before wrote its four neighbours, it has received error, and the pixels
\* before it are decided, one of them to a value other than its toned one
C15_Witness ==
  /\ pc = "dither"
  /\ settings.method = FLOYD_STEINBERG
  /\ width = MaxW /\ height = MaxH
  /\ x = 2 /\ y = 1
  /\ Len(writes) = 4
  /\ buffer[Here] # toned[Here]
  /\ \A j \in 0..(Here - 1) : buffer[j] \in Binary
  /\ \E j \in 0..(Here - 1) : buffer[j] # toned[j]
  /\ buffer[Here + width + 1] = toned[Here + width + 1]

\* C16: every Vibe Check that starts (isProcessingVibe set to true) eventually
\* sets isProcessingVibe back to false, whatever the outcome of the decoding
\* of the image and of getSmartVibe: the Auto-Tune card never stays disabled
\* forever.
C16_AsStated == isProcessingVibe ~> ~isProcessingVibe

\* handleVibeCheck has been ended by the exception of getSmartVibe for the
\* missing key, on an image that decoded, with isProcessingVibe still true
C16_Stuck ==
  /\ ~dead
  /\ isProcessingVibe
  /\ vibePc.at = "rejected"
  /\ Decodes(vibePc.img)
  /\ API_KEY = ""

\* the current settings: those of the last render with the updates made since
LatestSettings == reduceSettings(appSettings, pending.settings, 1)

\* C17: no settings update is lost: when the debounced commit of a slider
\* fires, the resulting settings differ from the current settings only in the
\* field of that slider; a change made to another field in the meantime is
\* still present afterwards.
C17_AsStated ==
  [][\A k \in Sliders :
       (/\ debounceTimer[k] # <<>>
        /\ debounceTimer'[k] = <<>>
        /\ ~dead
        /\ ~Throws(pending.settings)) =>
         \A f \in (DOMAIN LatestSettings) \ {k} :
           LatestSettings'[f] = LatestSettings[f]
    ]_vars

\* a timeout is pending that is bound to settings with another method than
\* the current one
C17_StaleTimer ==
  /\ ~dead
  /\ ~Throws(pending.settings)
  /\ \E k \in Sliders :
       /\ debounceTimer[k] # <<>>
       /\ debounceTimer[k][1].settings.method # LatestSettings.method

\* nothing is left that changes imageSrc or settings: no update to render, no
\* effect to run, no debounce timeout pending and no Vibe Check under way
Settled ==
  /\ ~dead
  /\ \A h \in Hooks : pending[h] = <<>>
  /\ \A k \in Sliders : localPending[k] = <<>>
  /\ effects = <<>>
  /\ \A k \in Sliders : debounceTimer[k] = <<>>
  /\ vibePc.at \in {"idle", "rejected"}

\* C18: after the last change of imageSrc or settings (no update is left to
\* render and no effect to run), once every pending image load has fired its
\* onload, the display canvas holds the result of processImage for the latest
\* imageSrc and the latest settings: an onload of an earlier run of the
\* processing effect never overwrites the result of a later run.
C18_AsStated ==
  (/\ imageSrc # Null
   /\ Decodes(imageSrc)
   /\ Settled
   /\ loading = {}) =>
    display = <<Rendered(imageSrc, appSettings)>>

\* nothing is pending and the display canvas holds the rendering of the image
\* dropped first, not that of the current one
C18_StaleDisplay ==
  /\ loading = {}
  /\ Settled
  /\ imageSrc = "light"
  /\ display = <<Rendered("dark", appSettings)>>
  /\ display # <<Rendered("light", appSettings)>>

====
